---- MODULE Spec2Model ----
(***************************************************************************)
(* SFDeploy: the five-phase hot-deploy pipeline (setup, build, deploy,     *)
(* restart, cleanup) of src/main.go, src/config.go and the single-file     *)
(* build src/unnamed/part_000, with the file system, the persisted         *)
(* configuration file, the toolchain installations and the process table   *)
(* it reads and writes.                                                    *)
(***************************************************************************)
EXTENDS Integers, Sequences, FiniteSets, TLC

\* ------------------------------------------------------------- bounds
\* .java files under <project>/src at the start of a run
MaxJava == 1
\* lines of one `netstat -ano` listing
MaxLines == 2

\* ---------------------------------------------------------- constants
\* the empty string in a process-identifier variable
NoPid == 0
\* the server port looked for in the connection listing
ServerPort == 9933

\* ------------------------------------------------------ text helpers
\* Extension folder names are sequences of characters.
Space == " "
Colon == ":"
Slash == "/"
Backslash == "\\"
Dot == "."

\* strings.Contains(s, c) for a one-character c
ContainsChar(s, c) == \E i \in 1..Len(s) : s[i] = c

RECURSIVE TrimLeft(_)
TrimLeft(s) == IF s # <<>> /\ Head(s) = Space THEN TrimLeft(Tail(s)) ELSE s

RECURSIVE TrimRight(_)
TrimRight(s) ==
  IF s # <<>> /\ s[Len(s)] = Space THEN TrimRight(SubSeq(s, 1, Len(s) - 1)) ELSE s

\* strings.TrimSpace
TrimSpace(s) == TrimRight(TrimLeft(s))

\* (mutant) the test forgets the backslash
ValidExtensionName_NoBackslash(s) ==
  /\ s # <<>>
  /\ ~ContainsChar(s, Colon)
  /\ ~ContainsChar(s, Slash)

\* The acceptance test of the extension-name loop.
ValidExtensionName(s) ==
  /\ s # <<>>
  /\ ~ContainsChar(s, Colon)
  /\ ~ContainsChar(s, Backslash)
  /\ ~ContainsChar(s, Slash)

\* ------------------------------------------------------ path helpers
\* A path is a sequence of components; a component is a sequence of
\* characters (a directory named by the model, such as "sfs", is one
\* character long).
IsSeparator(c, os) == c = Slash \/ (os = "windows" /\ c = Backslash)

\* Split a name into components at the platform's separators.
RECURSIVE SplitAt(_, _, _)
SplitAt(s, cur, os) ==
  IF s = <<>> THEN <<cur>>
  ELSE IF IsSeparator(Head(s), os) THEN <<cur>> \o SplitAt(Tail(s), <<>>, os)
  ELSE SplitAt(Tail(s), Append(cur, Head(s)), os)

\* filepath.Clean on components: drop empty and ".", let ".." pop.
RECURSIVE CleanOnto(_, _)
CleanOnto(done, rest) ==
  IF rest = <<>> THEN done
  ELSE LET c == Head(rest) IN
       IF c = <<>> \/ c = <<Dot>> THEN CleanOnto(done, Tail(rest))
       ELSE IF c = <<Dot, Dot>> /\ done # <<>> /\ done[Len(done)] # <<Dot, Dot>>
            THEN CleanOnto(SubSeq(done, 1, Len(done) - 1), Tail(rest))
       ELSE CleanOnto(Append(done, c), Tail(rest))

\* filepath.Join(root, "SFS2X", "extensions", name)
ExtensionsDir(root) == CleanOnto(<<>>, <<root, <<"SFS2X">>, <<"extensions">>>>)
JoinExtDir(root, name, os) ==
  CleanOnto(<<>>, <<root, <<"SFS2X">>, <<"extensions">>>> \o SplitAt(name, <<>>, os))

\* ------------------------------------------------------------- state
VARIABLES
  platform,        \* runtime.GOOS: "windows" or "other"
  layout,          \* which setupDirectories is built in: "split" (config.go) or "single" (part_000)
  cfgFile,         \* sfdeploy_config.json: [kind, cfg]
  projInExt,       \* the project directory is <sfs>/SFS2X/extensions/a
  tree,            \* <project>/src: [java: number of .java files, class: set of .class files]
  srcRootJars,     \* *.jar files of the project root: set of [name, content]
  extDirJars,      \* *.jar files of the target extension directory when it is another directory
  javac,           \* the javac found in each toolchain directory
  javaHomeSet,     \* JAVA_HOME is set (to the directory above "homeBin")
  netstat,         \* what `netstat -ano` prints: [ok, lines]
  javaProcs,       \* what wmic prints for java.exe: [ok, procs]
  shellPids,       \* identifiers tasklist reports as cmd.exe
  alive,           \* identifiers of the processes alive
  cmdOnPath,       \* an executable named cmd can be started
  libDir,          \* the files of <target>/SFS2X/lib
  foldCase,        \* the file system resolves names without regard to case
  classpath,       \* what buildClasspath returned: [parts, sep]
  config,          \* the Config record of main
  pc,              \* where main and the current phase handler stand
  started,         \* the phase handlers called so far, in call order
  result,          \* what each phase handler returned: "none", "ok", "fail"
  smartFoxCmdPid,  \* the package-level window identifier
  javaPrompted,    \* findJava11Path came to its prompt for a directory
  cleanupLog,      \* what each call of cleanupProject did and printed, in call order
  buildLog,        \* the steps of buildProject so far: [step, n]
  utilCalls,       \* the utilities run by the discovery and termination steps
  killCalls,       \* identifiers killPort9933 ran taskkill for, in order
  javacCalls,      \* compiler invocations
  jarCalls,        \* packaging-tool invocations
  preDeployJars,   \* names of the archives in the target extension directory when deploy began
  rmFailed,        \* names of the archives deployProject could not remove
  script,          \* the wrapper script sfs_with_logs.bat: "absent" or "present"
  rmTask,          \* the delayed deletion goroutine: "none", "sleeping", "woke", "done"
  terminal         \* the spawned terminal: "none", "spawned", "ran", "failed"

world == <<platform, layout, projInExt, javac, javaHomeSet, netstat, javaProcs,
           shellPids, cmdOnPath, libDir, foldCase>>
files == <<cfgFile, tree, srcRootJars, extDirJars, script>>
procs == <<alive, smartFoxCmdPid, killCalls, rmTask, terminal>>
ctl   == <<config, pc, started, result, javacCalls, jarCalls, preDeployJars, rmFailed,
           javaPrompted, cleanupLog, buildLog, utilCalls, classpath>>
vars  == <<world, files, procs, ctl>>

Phases == <<"Setup", "Build", "Deploy", "Restart", "Cleanup">>

\* Config{}: every field the empty string
EmptyConfig ==
  [SourceDir |-> "", TargetDir |-> "", ExtensionFolder |-> <<>>, JavaPath |-> ""]

\* filepath.Join ignores an empty element
RootComp(dir) == IF dir = "" THEN <<>> ELSE <<dir>>

\* ----------------------------------------------------- PathValidator
\* os.Stat(dir) does not report "not exist"
SourceExists(dir) == dir \in {"proj", "nosrc"}
\* os.Stat(dir/src) does not report "not exist"
HasSrcDir(dir) == dir = "proj"

\* hasJavaFiles(dir/src): the walk meets a name ending in .java
\* (names ending in .java, .class or .jar are regular files of a readable tree)
hasJavaFiles(dir) == dir = "proj" /\ tree.java > 0

\* (mutant) a src directory is enough, with or without .java files
validateSourceDir_SkipsJavaCheck(dir) ==
  IF ~SourceExists(dir) THEN FALSE
  ELSE IF ~HasSrcDir(dir) THEN FALSE
  ELSE TRUE

validateSourceDir(dir) ==
  IF ~SourceExists(dir) THEN FALSE
  ELSE IF ~HasSrcDir(dir) THEN FALSE
  ELSE hasJavaFiles(dir)

\* os.Stat(dir/SFS2X) and os.Stat(dir/SFS2X/sfs2x.bat)
HasSFS2X(dir) == dir \in {"sfs", "nolauncher"}
HasLauncher(dir) == dir = "sfs"

validateTargetDir(dir) ==
  IF ~HasSFS2X(dir) THEN FALSE
  ELSE IF ~HasLauncher(dir) THEN FALSE
  ELSE TRUE

\* ------------------------------------------------- library directory
\* A file of <target>/SFS2X/lib, its name base ++ tail ++ "." ++ ext.
LibFile(b, t, e) == [base |-> b, tail |-> t, ext |-> e]
\* the result "." of buildClasspath
CurrentDir == LibFile(".", "", "")

\* The names the model knows, in the byte order filepath.Glob sorts by.
LibOrder ==
  << LibFile("a", "", "jar"), LibFile("b", "", "jar"), LibFile("logback", "-1", "jar"),
     LibFile("notes", "", "txt"), LibFile("sfs2x", "", "JAR"), LibFile("sfs2x", "", "jar") >>

\* the name in lower case
LowerName(f) == [f EXCEPT !.ext = IF @ = "JAR" THEN "jar" ELSE @]

\* os.Lstat(dir/name) succeeds
Lstat(dir, f) ==
  IF foldCase THEN \E g \in dir : LowerName(g) = LowerName(f) ELSE f \in dir

\* filepath.Glob(dir/"*.jar"): filepath.Match compares bytes
GlobAllJars(dir) == SelectSeq(LibOrder, LAMBDA f : f \in dir /\ f.ext = "jar")

\* requiredJars; the last two end in a wildcard
requiredJars ==
  << [base |-> "sfs2x", wild |-> FALSE], [base |-> "sfs2x-core", wild |-> FALSE],
     [base |-> "sfs2x-api", wild |-> FALSE], [base |-> "slf4j-api", wild |-> TRUE],
     [base |-> "logback", wild |-> TRUE] >>

\* filepath.Glob(dir/pattern): a pattern without a wildcard is looked up
\* with os.Lstat and returned as written
GlobRequired(dir, pat) ==
  IF pat.wild
  THEN SelectSeq(LibOrder, LAMBDA f : f \in dir /\ f.base = pat.base /\ f.ext = "jar")
  ELSE IF Lstat(dir, LibFile(pat.base, "", "jar")) THEN <<LibFile(pat.base, "", "jar")>>
  ELSE <<>>

RECURSIVE GlobEach(_, _)
GlobEach(dir, pats) ==
  IF pats = <<>> THEN <<>> ELSE GlobRequired(dir, Head(pats)) \o GlobEach(dir, Tail(pats))

\* strings.Join(parts, separator)
Separator == IF platform = "windows" THEN ";" ELSE ":"
NoClasspath == [parts |-> <<>>, sep |-> ""]

\* (mutant) the separator is ':' on every platform
buildClasspath_ColonAlways(dir) ==
  LET all == GlobAllJars(dir)
      parts == IF all # <<>> THEN all ELSE GlobEach(dir, requiredJars)
  IN  IF parts = <<>> THEN [parts |-> <<CurrentDir>>, sep |-> ""]
      ELSE [parts |-> parts, sep |-> ":"]

buildClasspath(dir) ==
  LET all == GlobAllJars(dir)
      parts == IF all # <<>> THEN all ELSE GlobEach(dir, requiredJars)
  IN  IF parts = <<>> THEN [parts |-> <<CurrentDir>>, sep |-> ""]
      ELSE [parts |-> parts, sep |-> Separator]

\* the files of serverLibDir = <TargetDir>/SFS2X/lib
LibContent(cfg) == IF HasSFS2X(cfg.TargetDir) THEN libDir ELSE {}

\* --------------------------------------------------- ToolchainLocator
\* Directories that may hold a javac: JAVA_HOME/bin, the directory LookPath
\* resolves, two directories matched by the glob patterns (in pattern
\* order), and a directory only the operator knows.
JavaDirs == {"homeBin", "pathDir", "g1", "g2", "typedDir"}
\* What is at <dir>/javac: nothing; a binary whose -version exits non-zero
\* (its output naming 11 all the same); a binary of another version; a
\* Java 11 compiler.
JavacKinds == {"absent", "broken", "other", "java11"}
JavacExists(k) == k # "absent"
VersionExitOk(k) == k \in {"other", "java11"}
VersionOutputHasToken(k) == k \in {"broken", "java11"}

isJava11(dir) ==
  IF ~VersionExitOk(javac[dir]) THEN FALSE
  ELSE VersionOutputHasToken(javac[dir])

\* filepath.Glob over commonPaths, in pattern order
GlobMatches == SelectSeq(<<"g1", "g2">>, LAMBDA d : JavacExists(javac[d]))
GlobAccepted == SelectSeq(GlobMatches, LAMBDA d : isJava11(d))

\* (mutant) the search path is consulted before JAVA_HOME
findJava11Path_PathFirst(typed) ==
  IF JavacExists(javac["pathDir"]) /\ isJava11("pathDir") THEN "pathDir"
  ELSE IF javaHomeSet /\ JavacExists(javac["homeBin"]) /\ isJava11("homeBin") THEN "homeBin"
  ELSE IF platform = "windows" /\ GlobAccepted # <<>> THEN Head(GlobAccepted)
  ELSE IF typed # "" /\ JavacExists(javac[typed]) THEN typed
  ELSE ""

\* findJava11Path with `typed` the operator's answer to the final prompt;
\* the result is the directory returned, "" for none.
findJava11Path(typed) ==
  IF javaHomeSet /\ JavacExists(javac["homeBin"]) /\ isJava11("homeBin") THEN "homeBin"
  ELSE IF JavacExists(javac["pathDir"]) /\ isJava11("pathDir") THEN "pathDir"
  ELSE IF platform = "windows" /\ GlobAccepted # <<>> THEN Head(GlobAccepted)
  ELSE IF typed # "" /\ JavacExists(javac[typed]) THEN typed
  ELSE ""

\* findJava11Path comes to "Java 11 not found automatically" and reads a line
PromptReached ==
  /\ ~(javaHomeSet /\ JavacExists(javac["homeBin"]) /\ isJava11("homeBin"))
  /\ ~(JavacExists(javac["pathDir"]) /\ isJava11("pathDir"))
  /\ ~(platform = "windows" /\ GlobAccepted # <<>>)

JavaInputs == {""} \cup JavaDirs

\* ------------------------------------------------------ deploy paths
\* Where the project directory "proj" is.
ProjLocation ==
  IF projInExt THEN <<<<"sfs">>, <<"SFS2X">>, <<"extensions">>, <<"a">>>>
  ELSE <<<<"proj">>>>

SourceRoot(cfg) ==
  IF cfg.SourceDir = "proj" THEN ProjLocation
  ELSE CleanOnto(<<>>, <<RootComp(cfg.SourceDir)>>)

\* targetExtDir of deployProject
TargetExtDir(cfg) == JoinExtDir(RootComp(cfg.TargetDir), cfg.ExtensionFolder, platform)

\* The target extension directory is the project root itself.
Aliased(cfg) == TargetExtDir(cfg) = SourceRoot(cfg)

\* ------------------------------------------------------------- files
Jar(n, c) == [name |-> n, content |-> c]
Names(S) == {j.name : j \in S}
BuiltJar == "ServerExtension.jar"

\* the archives of the target extension directory
ExtJars == IF Aliased(config) THEN srcRootJars ELSE extDirJars

\* json.Unmarshal succeeded
ConfigExists == cfgFile.kind = "ok"
SavedConfig == cfgFile.cfg

\* saveConfig: the file written, or left as it was when it cannot be
\* opened, or cut short when the write fails.
SaveOutcomes(cfg) ==
  {[kind |-> "ok", cfg |-> cfg], cfgFile, [kind |-> "garbage", cfg |-> EmptyConfig]}

\* ---------------------------------------------------- ProcessManager
\* The processes of the machine: the server's java.exe, another java.exe,
\* and the shell windows that started them.
ServerPid == 4321
OtherJavaPid == 993
ServerShellPid == 500
OtherShellPid == 600
Pids == {ServerPid, OtherJavaPid, ServerShellPid, OtherShellPid}

\* One line of `netstat -ano`: hostTok says the text of the local host
\* address contains ":9933" (an IPv6 group); pid = NoPid is a line that
\* stops after the state column (four fields).
NetLine(h, p, s, id) == [hostTok |-> h, port |-> p, state |-> s, pid |-> id]

\* strings.Contains(line, ":9933")
ContainsPortText(l) == l.port = ServerPort \/ l.hostTok
\* strings.Contains(line, "LISTENING")
ContainsListening(l) == l.state = "LISTENING"
\* len(strings.Fields(line))
NumFields(l) == IF l.pid = NoPid THEN 4 ELSE 5

\* the lines killPort9933 runs taskkill for
KillMatch(l) == ContainsPortText(l) /\ ContainsListening(l) /\ NumFields(l) >= 5

\* (mutant) the platform test of killPort9933 is missing
KillTargets_AnyPlatform ==
  IF ~netstat.ok THEN <<>>
  ELSE LET m == SelectSeq(netstat.lines, KillMatch)
       IN  [i \in 1..Len(m) |-> m[i].pid]

\* killPort9933: the identifiers handed to taskkill, in order
KillTargets ==
  IF platform # "windows" THEN <<>>
  ELSE IF ~netstat.ok THEN <<>>
  ELSE LET m == SelectSeq(netstat.lines, KillMatch)
       IN  [i \in 1..Len(m) |-> m[i].pid]

\* decimal digits of n > 0
RECURSIVE NumDigits(_)
NumDigits(n) == IF n < 10 THEN 1 ELSE 1 + NumDigits(n \div 10)
RECURSIVE Pow10(_)
Pow10(k) == IF k = 0 THEN 1 ELSE 10 * Pow10(k - 1)

\* the decimal text of p occurs in the decimal text of n
SubNum(p, n) ==
  \E k \in 0..(NumDigits(n) - 1) : (n \div Pow10(k)) % Pow10(NumDigits(p)) = p

\* strings.Contains(netLine, javaPid): the numbers in the line's text are
\* its port, its owner and, for an IPv6 host, the group 9933.
LineMentions(l, id) ==
  \/ SubNum(id, l.port)
  \/ (l.pid # NoPid /\ SubNum(id, l.pid))
  \/ (l.hostTok /\ SubNum(id, ServerPort))

\* tasklist /fi "PID eq id" prints a cmd.exe row
TasklistShowsCmd(id, ok) == ok /\ id \in shellPids /\ id \in alive

\* findAndStoreSmartFoxCmdWindow: the value smartFoxCmdPid has afterwards,
\* `ok` saying whether the tasklist queries run.
FoundWindow(ok) ==
  IF platform # "windows" THEN smartFoxCmdPid
  ELSE IF ~javaProcs.ok THEN smartFoxCmdPid
  ELSE LET hit(j) ==
             /\ netstat.ok
             /\ \E i \in 1..Len(netstat.lines) :
                  /\ ContainsPortText(netstat.lines[i])
                  /\ ContainsListening(netstat.lines[i])
                  /\ LineMentions(netstat.lines[i], j.pid)
             /\ TasklistShowsCmd(j.ppid, ok)
           c == SelectSeq(javaProcs.procs, hit)
       IN  IF c # <<>> THEN Head(c).ppid ELSE smartFoxCmdPid

\* the utilities findAndStoreSmartFoxCmdWindow runs: wmic; netstat for
\* every java.exe line wmic printed; tasklist for a line of the listing
\* that matches
FindUtilities ==
  IF platform # "windows" THEN {}
  ELSE {"wmic"}
       \cup (IF javaProcs.ok /\ javaProcs.procs # <<>> THEN {"netstat"} ELSE {})
       \cup (IF /\ javaProcs.ok /\ netstat.ok
                 /\ \E k \in 1..Len(javaProcs.procs), i \in 1..Len(netstat.lines) :
                      /\ ContainsPortText(netstat.lines[i])
                      /\ ContainsListening(netstat.lines[i])
                      /\ LineMentions(netstat.lines[i], javaProcs.procs[k].pid)
              THEN {"tasklist"} ELSE {})

\* the utilities killPort9933 runs: netstat, and taskkill for every match
KillUtilities ==
  IF platform # "windows" THEN {}
  ELSE {"netstat"} \cup (IF KillTargets # <<>> THEN {"taskkill"} ELSE {})

\* the utilities the block of restartServer on the stored window runs,
\* `ok` saying whether the tasklist query runs
CloseUtilities(ok) ==
  IF smartFoxCmdPid = NoPid THEN {}
  ELSE {"tasklist"} \cup (IF TasklistShowsCmd(smartFoxCmdPid, ok) THEN {"taskkill"} ELSE {})

\* ------------------------------------------------------------ inputs
SeqsUpTo(S, n) == UNION {[1..k -> S] : k \in 0..n}

SourceInputs == {"proj", "nosrc", "missing"}
TargetInputs == {"sfs", "nolauncher", ""}
ExtNames ==
  { <<>>, <<Space>>, <<"a">>, <<Space, "a", Space>>, <<Dot, Dot>>, <<Dot, Dot, Slash, "a">>,
    <<"a", Colon>>, <<"a", Backslash, "a">> }

Cfg(s, t, e) == [SourceDir |-> s, TargetDir |-> t, ExtensionFolder |-> e, JavaPath |-> ""]
NoFile == [kind |-> "absent", cfg |-> EmptyConfig]
BadFile == [kind |-> "garbage", cfg |-> EmptyConfig]
OkFile(c) == [kind |-> "ok", cfg |-> c]

ListenLine == NetLine(FALSE, ServerPort, "LISTENING", ServerPid)

\* ------------------------------------------------------------- Init
InitRun ==
  /\ config = EmptyConfig
  /\ pc = "Setup"
  /\ started = <<>>
  /\ result = [p \in {"Setup", "Build", "Deploy", "Restart", "Cleanup"} |-> "none"]
  /\ smartFoxCmdPid = NoPid
  /\ javaPrompted = FALSE
  /\ cleanupLog = <<>>
  /\ buildLog = <<>>
  /\ utilCalls = {}
  /\ killCalls = <<>>
  /\ javacCalls = 0
  /\ jarCalls = 0
  /\ preDeployJars = {}
  /\ rmFailed = {}
  /\ script = "absent"
  /\ rmTask = "none"
  /\ terminal = "none"
  /\ alive = Pids
  /\ classpath = NoClasspath

InitBase(Platforms, Layouts, CfgFiles, InExt, Javas, Classes, SrcJars, ExtDirs, Tools, Nets, JProcs, Shells) ==
  /\ platform \in Platforms
  /\ layout \in Layouts
  /\ cfgFile \in CfgFiles
  /\ projInExt \in InExt
  /\ tree \in [java : Javas, class : Classes]
  /\ srcRootJars \in SrcJars
  /\ extDirJars \in ExtDirs
  /\ \E t \in Tools : javac = t.javac /\ javaHomeSet = t.home
  /\ netstat \in Nets
  /\ javaProcs \in JProcs
  /\ shellPids \in Shells
  /\ cmdOnPath \in (IF platform = "windows" THEN {TRUE} ELSE BOOLEAN)
  /\ InitRun

\* the same with the library directory of a fresh installation
InitWorld(Platforms, Layouts, CfgFiles, InExt, Javas, Classes, SrcJars, ExtDirs, Tools, Nets, JProcs, Shells) ==
  /\ InitBase(Platforms, Layouts, CfgFiles, InExt, Javas, Classes, SrcJars, ExtDirs, Tools, Nets, JProcs, Shells)
  /\ libDir = {LibFile("logback", "-1", "jar"), LibFile("sfs2x", "", "jar")}
  /\ foldCase = (platform = "windows")

\* ------------------------------------------------------- phase: setup
Call(phase) == started' = Append(started, phase)
Return(phase, r) == result' = [result EXCEPT ![phase] = r]

setupFrame ==
  <<world, tree, srcRootJars, extDirJars, script, procs, javacCalls, jarCalls,
    preDeployJars, rmFailed, cleanupLog, buildLog, utilCalls, classpath>>

SavedValid == validateSourceDir(SavedConfig.SourceDir) /\ validateTargetDir(SavedConfig.TargetDir)

\* loadConfig finds no file, or one json.Unmarshal rejects
SetupNoSaved ==
  /\ pc = "Setup" /\ ~ConfigExists
  /\ Call("Setup")
  /\ pc' = "PromptSource"
  /\ UNCHANGED <<config, result, cfgFile, javaPrompted, setupFrame>>

\* part_000 only: the operator answers "n" to "use the previous configuration?"
SetupDeclineSaved ==
  /\ pc = "Setup" /\ ConfigExists /\ layout = "single"
  /\ Call("Setup")
  /\ pc' = "PromptSource"
  /\ UNCHANGED <<config, result, cfgFile, javaPrompted, setupFrame>>

\* the saved paths no longer validate: *config = savedConfig, then the prompts
SetupStale ==
  /\ pc = "Setup" /\ ConfigExists /\ ~SavedValid
  /\ Call("Setup")
  /\ config' = SavedConfig
  /\ pc' = "PromptSource"
  /\ UNCHANGED <<result, cfgFile, javaPrompted, setupFrame>>

\* (mutant) the reused configuration is written back to the file
SetupReuse_SavesAgain ==
  /\ pc = "Setup" /\ ConfigExists /\ SavedValid
  /\ \E typed \in JavaInputs :
       /\ findJava11Path(typed) # ""
       /\ config' = [SavedConfig EXCEPT !.JavaPath = findJava11Path(typed)]
  /\ javaPrompted' = PromptReached
  /\ cfgFile' = OkFile(config')
  /\ Call("Setup")
  /\ Return("Setup", "ok")
  /\ pc' = "Build"
  /\ UNCHANGED setupFrame

\* the saved configuration is reused and a toolchain is found
SetupReuse ==
  /\ pc = "Setup" /\ ConfigExists /\ SavedValid
  /\ \E typed \in JavaInputs :
       /\ findJava11Path(typed) # ""
       /\ config' = [SavedConfig EXCEPT !.JavaPath = findJava11Path(typed)]
  /\ javaPrompted' = PromptReached
  /\ Call("Setup")
  /\ Return("Setup", "ok")
  /\ pc' = "Build"
  /\ UNCHANGED <<cfgFile, setupFrame>>

\* the saved configuration is reused and no toolchain is found
SetupReuseNoJava ==
  /\ pc = "Setup" /\ ConfigExists /\ SavedValid
  /\ \E typed \in JavaInputs : findJava11Path(typed) = ""
  /\ config' = [SavedConfig EXCEPT !.JavaPath = ""]
  /\ javaPrompted' = PromptReached
  /\ Call("Setup")
  /\ Return("Setup", "fail")
  /\ pc' = "Aborted"
  /\ UNCHANGED <<cfgFile, setupFrame>>

\* one round of the source-directory loop
SourceRejected ==
  /\ pc = "PromptSource"
  /\ \E typed \in SourceInputs :
       /\ ~validateSourceDir(typed)
       /\ config' = [config EXCEPT !.SourceDir = typed]
  /\ UNCHANGED <<pc, started, result, cfgFile, javaPrompted, setupFrame>>

SourceAccepted ==
  /\ pc = "PromptSource"
  /\ \E typed \in SourceInputs :
       /\ validateSourceDir(typed)
       /\ config' = [config EXCEPT !.SourceDir = typed]
  /\ pc' = "DetectTarget"
  /\ UNCHANGED <<started, result, cfgFile, javaPrompted, setupFrame>>

\* findSmartFoxServer returns ""
DetectNone ==
  /\ pc = "DetectTarget"
  /\ pc' = IF config.TargetDir = "" THEN "PromptTarget" ELSE "PromptExtension"
  /\ UNCHANGED <<config, started, result, cfgFile, javaPrompted, setupFrame>>

\* findSmartFoxServer returns an installation and the operator takes it
DetectAccept ==
  /\ pc = "DetectTarget"
  /\ validateTargetDir("sfs")
  /\ config' = [config EXCEPT !.TargetDir = "sfs"]
  /\ pc' = "PromptExtension"
  /\ UNCHANGED <<started, result, cfgFile, javaPrompted, setupFrame>>

\* findSmartFoxServer returns an installation and the operator declines it
DetectDecline ==
  /\ pc = "DetectTarget"
  /\ validateTargetDir("sfs")
  /\ config' = [config EXCEPT !.TargetDir = ""]
  /\ pc' = "PromptTarget"
  /\ UNCHANGED <<started, result, cfgFile, javaPrompted, setupFrame>>

\* one round of the target-directory loop
TargetRejected ==
  /\ pc = "PromptTarget"
  /\ \E typed \in TargetInputs :
       /\ ~validateTargetDir(typed)
       /\ config' = [config EXCEPT !.TargetDir = typed]
  /\ UNCHANGED <<pc, started, result, cfgFile, javaPrompted, setupFrame>>

TargetAccepted ==
  /\ pc = "PromptTarget"
  /\ \E typed \in TargetInputs :
       /\ validateTargetDir(typed)
       /\ config' = [config EXCEPT !.TargetDir = typed]
  /\ pc' = "PromptExtension"
  /\ UNCHANGED <<started, result, cfgFile, javaPrompted, setupFrame>>

\* one round of the extension-name loop
ExtensionRejected ==
  /\ pc = "PromptExtension"
  /\ \E typed \in ExtNames :
       /\ ~ValidExtensionName(TrimSpace(typed))
       /\ config' = [config EXCEPT !.ExtensionFolder = TrimSpace(typed)]
  /\ UNCHANGED <<pc, started, result, cfgFile, javaPrompted, setupFrame>>

ExtensionAccepted ==
  /\ pc = "PromptExtension"
  /\ \E typed \in ExtNames :
       /\ ValidExtensionName(TrimSpace(typed))
       /\ config' = [config EXCEPT !.ExtensionFolder = TrimSpace(typed)]
  /\ pc' = "FindJava"
  /\ UNCHANGED <<started, result, cfgFile, javaPrompted, setupFrame>>

\* findJava11Path succeeds: saveConfig, return true
SetupFinish ==
  /\ pc = "FindJava"
  /\ \E typed \in JavaInputs :
       /\ findJava11Path(typed) # ""
       /\ config' = [config EXCEPT !.JavaPath = findJava11Path(typed)]
  /\ cfgFile' \in SaveOutcomes(config')
  /\ javaPrompted' = PromptReached
  /\ Return("Setup", "ok")
  /\ pc' = "Build"
  /\ UNCHANGED <<started, setupFrame>>

\* findJava11Path returns "": return false
SetupNoJava ==
  /\ pc = "FindJava"
  /\ \E typed \in JavaInputs : findJava11Path(typed) = ""
  /\ config' = [config EXCEPT !.JavaPath = ""]
  /\ javaPrompted' = PromptReached
  /\ Return("Setup", "fail")
  /\ pc' = "Aborted"
  /\ UNCHANGED <<started, cfgFile, setupFrame>>

setupDirectories ==
  \/ SetupNoSaved \/ SetupDeclineSaved \/ SetupStale \/ SetupReuse \/ SetupReuseNoJava
  \/ SourceRejected \/ SourceAccepted \/ DetectNone \/ DetectAccept \/ DetectDecline
  \/ TargetRejected \/ TargetAccepted \/ ExtensionRejected \/ ExtensionAccepted
  \/ SetupFinish \/ SetupNoJava

\* ------------------------------------------------------- phase: build
buildRest ==
  <<world, cfgFile, extDirJars, script, procs, config, preDeployJars, rmFailed,
    javaPrompted, cleanupLog, utilCalls>>
buildFrame == <<buildRest, classpath>>

\* A step of buildProject: "clean" (cleanClassFiles returns nothing, n is 0),
\* "enumerate" with the number of source files found, "javac" and "jar"
\* with the tool's exit code.
Step(s, n) == [step |-> s, n |-> n]

\* Between the check of setup and the walk of the build the operator's
\* project may lose its sources (the tool waits at prompts in between).
SourcesRemoved ==
  /\ pc = "Build" /\ tree.java > 0
  /\ tree' = [tree EXCEPT !.java = 0]
  /\ UNCHANGED <<world, cfgFile, srcRootJars, extDirJars, script, procs, ctl>>

\* cleanClassFiles: every .class file is handed to os.Remove, whose error is dropped
BuildClean ==
  /\ pc = "Build"
  /\ Call("Build")
  /\ \E kept \in SUBSET tree.class : tree' = [tree EXCEPT !.class = kept]
  /\ buildLog' = <<Step("clean", 0)>>
  /\ pc' = "BuildEnumerate"
  /\ UNCHANGED <<result, srcRootJars, javacCalls, jarCalls, buildFrame>>

\* findJavaFiles(srcDir)
JavaFilesFound == IF config.SourceDir = "proj" THEN tree.java ELSE 0

\* (mutant) the empty file list is handed to the compiler
BuildNoSources_InvokesCompiler ==
  /\ pc = "BuildEnumerate" /\ JavaFilesFound = 0
  /\ buildLog' = Append(buildLog, Step("enumerate", 0))
  /\ javacCalls' = javacCalls + 1
  /\ Return("Build", "fail")
  /\ pc' = "Aborted"
  /\ UNCHANGED <<started, tree, srcRootJars, jarCalls, buildFrame>>

\* len(javaFiles) == 0: return false
BuildNoSources ==
  /\ pc = "BuildEnumerate" /\ JavaFilesFound = 0
  /\ buildLog' = Append(buildLog, Step("enumerate", 0))
  /\ Return("Build", "fail")
  /\ pc' = "Aborted"
  /\ UNCHANGED <<started, tree, srcRootJars, javacCalls, jarCalls, buildFrame>>

\* (mutant) the packaging tool is run although javac failed
BuildCompileFail_Packages ==
  /\ pc = "BuildEnumerate" /\ JavaFilesFound > 0
  /\ classpath' = buildClasspath(LibContent(config))
  /\ javacCalls' = javacCalls + 1
  /\ buildLog' = buildLog \o <<Step("enumerate", JavaFilesFound), Step("javac", 1)>>
  /\ pc' = "BuildPackage"
  /\ UNCHANGED <<started, result, tree, srcRootJars, jarCalls, buildRest>>

\* javac exits non-zero (or cannot be run)
BuildCompileFail ==
  /\ pc = "BuildEnumerate" /\ JavaFilesFound > 0
  /\ classpath' = buildClasspath(LibContent(config))
  /\ javacCalls' = javacCalls + 1
  /\ buildLog' = buildLog \o <<Step("enumerate", JavaFilesFound), Step("javac", 1)>>
  /\ Return("Build", "fail")
  /\ pc' = "Aborted"
  /\ UNCHANGED <<started, tree, srcRootJars, jarCalls, buildRest>>

\* (mutant) the build phase forgets the toolchain directory once javac ran
BuildCompileOk_ResetsJavaPath ==
  /\ pc = "BuildEnumerate" /\ JavaFilesFound > 0
  /\ javacCalls' = javacCalls + 1
  /\ buildLog' = buildLog \o <<Step("enumerate", JavaFilesFound), Step("javac", 0)>>
  /\ tree' = [tree EXCEPT !.class = @ \cup {"Main.class"}]
  /\ config' = [config EXCEPT !.JavaPath = ""]
  /\ pc' = "BuildPackage"
  /\ UNCHANGED <<started, result, srcRootJars, jarCalls, world, cfgFile, extDirJars,
                 script, procs, preDeployJars, rmFailed, javaPrompted, cleanupLog,
                 utilCalls>>
  /\ classpath' = buildClasspath(LibContent(config))

\* javac exits zero, its output under -d srcDir
BuildCompileOk ==
  /\ pc = "BuildEnumerate" /\ JavaFilesFound > 0
  /\ classpath' = buildClasspath(LibContent(config))
  /\ javacCalls' = javacCalls + 1
  /\ buildLog' = buildLog \o <<Step("enumerate", JavaFilesFound), Step("javac", 0)>>
  /\ tree' = [tree EXCEPT !.class = @ \cup {"Main.class"}]
  /\ pc' = "BuildPackage"
  /\ UNCHANGED <<started, result, srcRootJars, jarCalls, buildRest>>

\* (mutant) main goes on to the next phase after a failed build
BuildPackageFail_GoesOn ==
  /\ pc = "BuildPackage"
  /\ jarCalls' = jarCalls + 1
  /\ buildLog' = Append(buildLog, Step("jar", 1))
  /\ Return("Build", "fail")
  /\ pc' = "Deploy"
  /\ UNCHANGED <<started, tree, srcRootJars, javacCalls, buildFrame>>

\* jar exits non-zero
BuildPackageFail ==
  /\ pc = "BuildPackage"
  /\ jarCalls' = jarCalls + 1
  /\ buildLog' = Append(buildLog, Step("jar", 1))
  /\ Return("Build", "fail")
  /\ pc' = "Aborted"
  /\ UNCHANGED <<started, tree, srcRootJars, javacCalls, buildFrame>>

\* jar cf <SourceDir>/ServerExtension.jar .
BuildPackageOk ==
  /\ pc = "BuildPackage"
  /\ jarCalls' = jarCalls + 1
  /\ buildLog' = Append(buildLog, Step("jar", 0))
  /\ srcRootJars' = {j \in srcRootJars : j.name # BuiltJar} \cup {Jar(BuiltJar, "built")}
  /\ Return("Build", "ok")
  /\ pc' = "Deploy"
  /\ UNCHANGED <<started, tree, javacCalls, buildFrame>>

buildProject ==
  \/ BuildClean \/ BuildNoSources \/ BuildCompileFail \/ BuildCompileOk
  \/ BuildPackageFail \/ BuildPackageOk

\* ------------------------------------------------------ phase: deploy
deployRest ==
  <<world, cfgFile, tree, script, rmTask, terminal, config, javacCalls, jarCalls,
    javaPrompted, cleanupLog, buildLog, classpath>>
deployFrame == <<deployRest, utilCalls>>

\* the archives of the target extension directory become S
SetExtJars(S) ==
  IF Aliased(config) THEN srcRootJars' = S /\ UNCHANGED extDirJars
  ELSE extDirJars' = S /\ UNCHANGED srcRootJars

\* os.MkdirAll(targetExtDir) fails: return false
DeployMkdirFail ==
  /\ pc = "Deploy"
  /\ Call("Deploy")
  /\ Return("Deploy", "fail")
  /\ pc' = "Aborted"
  /\ UNCHANGED <<srcRootJars, extDirJars, alive, smartFoxCmdPid, killCalls,
                 preDeployJars, rmFailed, deployFrame>>

DeployMkdirOk ==
  /\ pc = "Deploy"
  /\ Call("Deploy")
  /\ preDeployJars' = Names(ExtJars)
  /\ pc' = "DeployFind"
  /\ UNCHANGED <<result, srcRootJars, extDirJars, alive, smartFoxCmdPid, killCalls,
                 rmFailed, deployFrame>>

\* (mutant) the listeners are terminated in the same step as the discovery
DeployFind_KillsFirst ==
  /\ pc = "DeployFind"
  /\ killCalls' = killCalls \o KillTargets
  /\ \E ok \in BOOLEAN : smartFoxCmdPid' = FoundWindow(ok)
  /\ utilCalls' = utilCalls \cup FindUtilities \cup KillUtilities
  /\ pc' = "DeployKill"
  /\ UNCHANGED <<started, result, srcRootJars, extDirJars, alive,
                 preDeployJars, rmFailed, deployRest>>

\* findAndStoreSmartFoxCmdWindow()
DeployFind ==
  /\ pc = "DeployFind"
  /\ \E ok \in BOOLEAN : smartFoxCmdPid' = FoundWindow(ok)
  /\ utilCalls' = utilCalls \cup FindUtilities
  /\ pc' = "DeployKill"
  /\ UNCHANGED <<started, result, srcRootJars, extDirJars, alive, killCalls,
                 preDeployJars, rmFailed, deployRest>>

\* (mutant) a failed connection listing makes the deploy phase return false
DeployKill_AbortsOnListingError ==
  /\ pc = "DeployKill"
  /\ killCalls' = killCalls \o KillTargets
  /\ \E dead \in SUBSET {KillTargets[i] : i \in 1..Len(KillTargets)} :
       alive' = alive \ dead
  /\ IF netstat.ok THEN pc' = "DeploySleep" /\ UNCHANGED result
     ELSE pc' = "Aborted" /\ Return("Deploy", "fail")
  /\ utilCalls' = utilCalls \cup KillUtilities
  /\ UNCHANGED <<started, srcRootJars, extDirJars, smartFoxCmdPid,
                 preDeployJars, rmFailed, deployRest>>

\* killPort9933(): each taskkill ends the process or fails
DeployKill ==
  /\ pc = "DeployKill"
  /\ killCalls' = killCalls \o KillTargets
  /\ \E dead \in SUBSET {KillTargets[i] : i \in 1..Len(KillTargets)} :
       alive' = alive \ dead
  /\ utilCalls' = utilCalls \cup KillUtilities
  /\ pc' = "DeploySleep"
  /\ UNCHANGED <<started, result, srcRootJars, extDirJars, smartFoxCmdPid,
                 preDeployJars, rmFailed, deployRest>>

\* time.Sleep(3 * time.Second)
DeploySleep ==
  /\ pc = "DeploySleep"
  /\ pc' = "DeployRemove"
  /\ UNCHANGED <<started, result, srcRootJars, extDirJars, alive, smartFoxCmdPid,
                 killCalls, preDeployJars, rmFailed, deployFrame>>

\* (mutant) the removal loop is skipped
DeployRemove_SkipsAll ==
  /\ pc = "DeployRemove"
  /\ rmFailed' = {}
  /\ pc' = "DeployCopy"
  /\ UNCHANGED <<started, result, srcRootJars, extDirJars, alive, smartFoxCmdPid,
                 killCalls, preDeployJars, deployFrame>>

\* os.Remove on every *.jar of targetExtDir; a failure is only reported
DeployRemove ==
  /\ pc = "DeployRemove"
  /\ \E failed \in SUBSET Names(ExtJars) :
       /\ SetExtJars({j \in ExtJars : j.name \in failed})
       /\ rmFailed' = failed
  /\ pc' = "DeployCopy"
  /\ UNCHANGED <<started, result, alive, smartFoxCmdPid, killCalls, preDeployJars,
                 deployFrame>>

SourceJarPresent == BuiltJar \in Names(srcRootJars)
SourceJarContent == (CHOOSE j \in srcRootJars : j.name = BuiltJar).content

\* (mutant) main calls restartServer although the copy failed
DeployCopyFailEarly_GoesOn ==
  /\ pc = "DeployCopy"
  /\ Return("Deploy", "fail")
  /\ pc' = "Restart"
  /\ UNCHANGED <<started, srcRootJars, extDirJars, alive, smartFoxCmdPid, killCalls,
                 preDeployJars, rmFailed, deployFrame>>

\* copyFile: os.Open(src) or os.Create(dst) fails
DeployCopyFailEarly ==
  /\ pc = "DeployCopy"
  /\ Return("Deploy", "fail")
  /\ pc' = "Aborted"
  /\ UNCHANGED <<started, srcRootJars, extDirJars, alive, smartFoxCmdPid, killCalls,
                 preDeployJars, rmFailed, deployFrame>>

\* copyFile: the transfer fails after dst was created
DeployCopyFailLate ==
  /\ pc = "DeployCopy" /\ SourceJarPresent
  /\ SetExtJars({j \in ExtJars : j.name # BuiltJar} \cup {Jar(BuiltJar, "partial")})
  /\ Return("Deploy", "fail")
  /\ pc' = "Aborted"
  /\ UNCHANGED <<started, alive, smartFoxCmdPid, killCalls, preDeployJars, rmFailed,
                 deployFrame>>

\* copyFile succeeds; os.Create truncates dst before src is read
DeployCopyOk ==
  /\ pc = "DeployCopy" /\ SourceJarPresent
  /\ SetExtJars({j \in ExtJars : j.name # BuiltJar}
                \cup {Jar(BuiltJar, IF Aliased(config) THEN "empty" ELSE SourceJarContent)})
  /\ Return("Deploy", "ok")
  /\ pc' = "Restart"
  /\ UNCHANGED <<started, alive, smartFoxCmdPid, killCalls, preDeployJars, rmFailed,
                 deployFrame>>

deployProject ==
  \/ DeployMkdirFail \/ DeployMkdirOk \/ DeployFind \/ DeployKill \/ DeploySleep
  \/ DeployRemove \/ DeployCopyFailEarly \/ DeployCopyFailLate \/ DeployCopyOk

\* ----------------------------------------------------- phase: restart
restartRest ==
  <<world, cfgFile, tree, srcRootJars, extDirJars, killCalls, config, javacCalls,
    jarCalls, preDeployJars, rmFailed, javaPrompted, cleanupLog, buildLog, classpath>>
restartFrame == <<restartRest, utilCalls>>

\* (mutant) a stored window that is gone makes the restart phase return false
RestartCloseOld_FailsOnStale ==
  /\ pc = "Restart"
  /\ Call("Restart")
  /\ IF smartFoxCmdPid # NoPid
     THEN /\ smartFoxCmdPid' = NoPid
          /\ \E ok \in BOOLEAN :
               /\ utilCalls' = utilCalls \cup CloseUtilities(ok)
               /\ IF TasklistShowsCmd(smartFoxCmdPid, ok)
                  THEN /\ alive' = alive \ {smartFoxCmdPid}
                       /\ pc' = "RestartWrite" /\ UNCHANGED result
                  ELSE /\ alive' = alive
                       /\ pc' = "Aborted" /\ Return("Restart", "fail")
     ELSE pc' = "RestartWrite" /\ UNCHANGED <<alive, smartFoxCmdPid, result, utilCalls>>
  /\ UNCHANGED <<script, rmTask, terminal, restartRest>>

\* the block on the stored window identifier: tasklist, taskkill, reset
RestartCloseOld ==
  /\ pc = "Restart"
  /\ Call("Restart")
  /\ IF smartFoxCmdPid # NoPid
     THEN /\ \E ok \in BOOLEAN, killed \in BOOLEAN :
               /\ alive' = IF TasklistShowsCmd(smartFoxCmdPid, ok) /\ killed
                           THEN alive \ {smartFoxCmdPid} ELSE alive
               /\ utilCalls' = utilCalls \cup CloseUtilities(ok)
          /\ smartFoxCmdPid' = NoPid
     ELSE UNCHANGED <<alive, smartFoxCmdPid, utilCalls>>
  /\ pc' = "RestartWrite"
  /\ UNCHANGED <<result, script, rmTask, terminal, restartRest>>

\* os.WriteFile(logBat) fails: return false
RestartWriteFail ==
  /\ pc = "RestartWrite"
  /\ Return("Restart", "fail")
  /\ pc' = "Aborted"
  /\ UNCHANGED <<started, script, alive, smartFoxCmdPid, rmTask, terminal, restartFrame>>

RestartWriteOk ==
  /\ pc = "RestartWrite"
  /\ script' = "present"
  /\ pc' = "RestartSpawn"
  /\ UNCHANGED <<started, result, alive, smartFoxCmdPid, rmTask, terminal, restartFrame>>

\* (mutant) the deletion goroutine is started before cmd.Start() is tried
RestartSpawnFail_StartsTask ==
  /\ pc = "RestartSpawn"
  /\ rmTask' = "sleeping"
  /\ Return("Restart", "fail")
  /\ pc' = "Aborted"
  /\ UNCHANGED <<started, script, alive, smartFoxCmdPid, terminal, restartFrame>>

\* cmd.Start() fails: return false
RestartSpawnFail ==
  /\ pc = "RestartSpawn"
  /\ Return("Restart", "fail")
  /\ pc' = "Aborted"
  /\ UNCHANGED <<started, script, alive, smartFoxCmdPid, rmTask, terminal, restartFrame>>

\* (mutant) the restart phase reports success without a new terminal
RestartSpawnOk_NoTerminal ==
  /\ pc = "RestartSpawn" /\ cmdOnPath
  /\ rmTask' = "sleeping"
  /\ Return("Restart", "ok")
  /\ pc' = "Cleanup"
  /\ UNCHANGED <<started, script, alive, smartFoxCmdPid, terminal, restartFrame>>

\* cmd.Start() succeeds; go func() { sleep; os.Remove(logBat) }; return true
RestartSpawnOk ==
  /\ pc = "RestartSpawn" /\ cmdOnPath
  /\ terminal' = "spawned"
  /\ rmTask' = "sleeping"
  /\ Return("Restart", "ok")
  /\ pc' = "Cleanup"
  /\ UNCHANGED <<started, script, alive, smartFoxCmdPid, restartFrame>>

restartServer ==
  \/ RestartCloseOld \/ RestartWriteFail \/ RestartWriteOk
  \/ RestartSpawnFail \/ RestartSpawnOk

\* ----------------------------------------------------- phase: cleanup
\* The files cleanupProject may meet: .class files under src and *.jar files
\* of the project root.
FileNames == {"Old.class", "Main.class", "old.jar", BuiltJar}

\* (mutant) a warning is printed for every name os.Remove would refuse,
\* whether or not the glob listed it
cleanupFiles_WarnsUnlisted(t, jars, failing) ==
  [ tree |-> [t EXCEPT !.class = @ \cap failing],
    jars |-> {j \in jars : j.name \in failing},
    report |->
      [ before |-> t.class \cup Names(jars),
        classFilesRemoved |-> Cardinality(t.class \ failing),
        jarFilesRemoved |-> Cardinality(Names(jars) \ failing),
        warned |-> failing \ {"Old.class", "Main.class"},
        failed |-> (t.class \cup Names(jars)) \cap failing,
        returned |-> TRUE ] ]

\* The body of cleanupProject on the .class files t.class and the archives
\* jars, `failing` the names os.Remove refuses: the walk and the glob loop
\* hand every file to os.Remove; a .class failure is dropped, a .jar
\* failure is printed as a warning; the function returns true.
cleanupFiles(t, jars, failing) ==
  [ tree |-> [t EXCEPT !.class = @ \cap failing],
    jars |-> {j \in jars : j.name \in failing},
    report |->
      [ before |-> t.class \cup Names(jars),
        classFilesRemoved |-> Cardinality(t.class \ failing),
        jarFilesRemoved |-> Cardinality(Names(jars) \ failing),
        warned |-> Names(jars) \cap failing,
        failed |-> (t.class \cup Names(jars)) \cap failing,
        returned |-> TRUE ] ]

\* (mutant) a removal failure makes the cleanup phase return false
cleanupProject_FailsOnError ==
  /\ pc = "Cleanup"
  /\ Call("Cleanup")
  /\ \E failing \in SUBSET FileNames :
       LET r == cleanupFiles(tree, srcRootJars, failing) IN
         /\ tree' = r.tree
         /\ srcRootJars' = r.jars
         /\ cleanupLog' = Append(cleanupLog, r.report)
         /\ IF r.report.failed = {}
            THEN Return("Cleanup", "ok") /\ pc' = "Done"
            ELSE Return("Cleanup", "fail") /\ pc' = "Aborted"
  /\ UNCHANGED <<world, cfgFile, extDirJars, script, procs, config, javacCalls,
                 jarCalls, preDeployJars, rmFailed, javaPrompted, buildLog, utilCalls,
                 classpath>>

\* cleanupProject: os.Remove on every .class file under src and every
\* *.jar of the project root; a failure is counted or reported, no more
cleanupProject ==
  /\ pc = "Cleanup"
  /\ Call("Cleanup")
  /\ \E failing \in SUBSET FileNames :
       LET r == cleanupFiles(tree, srcRootJars, failing) IN
         /\ tree' = r.tree
         /\ srcRootJars' = r.jars
         /\ cleanupLog' = Append(cleanupLog, r.report)
  /\ Return("Cleanup", "ok")
  /\ pc' = "Done"
  /\ UNCHANGED <<world, cfgFile, extDirJars, script, procs, config, javacCalls,
                 jarCalls, preDeployJars, rmFailed, javaPrompted, buildLog, utilCalls,
                 classpath>>

\* main after the last phase: the message, then ReadLine returns
Acknowledge ==
  /\ pc = "Done"
  /\ pc' = "Exited"
  /\ UNCHANGED <<world, files, procs, config, started, result, javacCalls, jarCalls,
                 preDeployJars, rmFailed, javaPrompted, cleanupLog, buildLog, utilCalls,
                 classpath>>

\* --------------------------------------------------- concurrent units
\* The goroutine of restartServer lives only while main does: when main
\* returns the process exits and the goroutine with it.
MainRunning == pc \notin {"Aborted", "Exited"}

\* time.Sleep(5 * time.Second) of the goroutine returns
DelayElapsed ==
  /\ rmTask = "sleeping" /\ MainRunning
  /\ rmTask' = "woke"
  /\ UNCHANGED <<world, files, alive, smartFoxCmdPid, killCalls, terminal, ctl>>

\* (mutant) the goroutine waits until the terminal has opened the script
DelayedRemove_WaitsForRead ==
  /\ rmTask = "woke" /\ MainRunning /\ terminal # "spawned"
  /\ script' \in {"absent", script}
  /\ rmTask' = "done"
  /\ UNCHANGED <<world, cfgFile, tree, srcRootJars, extDirJars, alive, smartFoxCmdPid,
                 killCalls, terminal, ctl>>

\* os.Remove(logBat) of the goroutine, its error dropped
DelayedRemove ==
  /\ rmTask = "woke" /\ MainRunning
  /\ script' \in {"absent", script}
  /\ rmTask' = "done"
  /\ UNCHANGED <<world, cfgFile, tree, srcRootJars, extDirJars, alive, smartFoxCmdPid,
                 killCalls, terminal, ctl>>

\* the spawned cmd /k opens the wrapper script
TerminalRead ==
  /\ terminal = "spawned"
  /\ terminal' = IF script = "present" THEN "ran" ELSE "failed"
  /\ UNCHANGED <<world, files, alive, smartFoxCmdPid, killCalls, rmTask, ctl>>

\* --------------------------------------------------------------- main
Next ==
  \/ setupDirectories
  \/ SourcesRemoved
  \/ buildProject
  \/ deployProject
  \/ restartServer
  \/ cleanupProject
  \/ Acknowledge
  \/ DelayElapsed
  \/ DelayedRemove
  \/ TerminalRead

\* ---------------------------------------------------- specifications
JavacWorld(h, p, a, b, t) ==
  [d \in JavaDirs |->
     CASE d = "homeBin" -> h [] d = "pathDir" -> p [] d = "g1" -> a
       [] d = "g2" -> b [] OTHER -> t]

ValidFile == OkFile(Cfg("proj", "sfs", <<"a">>))
StaleSourceFile == OkFile(Cfg("missing", "sfs", <<"a">>))

JProcsOne == <<[pid |-> ServerPid, ppid |-> ServerShellPid]>>
JProcsTwo ==
  <<[pid |-> OtherJavaPid, ppid |-> OtherShellPid], [pid |-> ServerPid, ppid |-> ServerShellPid]>>

ToolHome == [javac |-> JavacWorld("java11", "absent", "absent", "absent", "other"), home |-> TRUE]
ToolNone == [javac |-> JavacWorld("absent", "absent", "absent", "absent", "other"), home |-> FALSE]

OldJar == Jar("old.jar", "stale")
NetOk(lines) == [ok |-> TRUE, lines |-> lines]
NetFailed == [ok |-> FALSE, lines |-> <<>>]
Listings(Lines) == {NetFailed} \cup {NetOk(l) : l \in SeqsUpTo(Lines, MaxLines)}

\* The pipeline: one project outside the installation, two toolchain
\* worlds, listings of up to MaxLines lines.
Init ==
  InitWorld({"windows", "other"}, {"split", "single"},
            {NoFile, ValidFile, StaleSourceFile}, {FALSE}, 0..MaxJava, {{}, {"Old.class"}},
            {{}}, {{}, {OldJar}}, {ToolHome, ToolNone}, Listings({ListenLine}),
            [ok : BOOLEAN, procs : {JProcsOne}], {{ServerShellPid}})

Spec == Init /\ [][Next]_vars

\* Setup: every persisted file over two source and two target directories
\* and every extension name.
InitSetup ==
  InitWorld({"windows", "other"}, {"split", "single"},
            {NoFile, BadFile}
              \cup {OkFile(Cfg(s, t, e)) : s \in {"proj", "missing"}, t \in {"sfs", "gone"},
                                          e \in ExtNames},
            {FALSE}, 0..MaxJava, {{}}, {{}}, {{}}, {ToolNone}, {NetOk(<<ListenLine>>)},
            [ok : {TRUE}, procs : {JProcsOne}], {{ServerShellPid}})

SpecSetup == InitSetup /\ [][Next]_vars

\* Deploy: the project inside or outside the installation's extensions
\* directory, every content of the target extension directory.
InitDeploy ==
  InitWorld({"windows", "other"}, {"single"}, {NoFile, ValidFile, StaleSourceFile}, BOOLEAN,
            {MaxJava}, {{}}, {{}}, SUBSET {OldJar, Jar(BuiltJar, "stale")}, {ToolNone},
            {NetOk(<<ListenLine>>)}, [ok : {TRUE}, procs : {JProcsOne}], {{ServerShellPid}})

SpecDeploy == InitDeploy /\ [][Next]_vars

\* Processes: every listing of up to MaxLines lines over six kinds of line.
ProcLines ==
  { ListenLine,
    NetLine(FALSE, ServerPort, "ESTABLISHED", ServerPid),
    NetLine(FALSE, ServerPort, "LISTENING", OtherJavaPid),
    NetLine(FALSE, ServerPort, "LISTENING", NoPid),
    NetLine(FALSE, 445, "LISTENING", ServerShellPid),
    NetLine(TRUE, 445, "LISTENING", OtherShellPid) }

InitProc ==
  InitWorld({"windows", "other"}, {"single"}, {NoFile, ValidFile, StaleSourceFile}, {FALSE},
            {MaxJava}, {{}}, {{}}, {{}}, {ToolNone}, Listings(ProcLines),
            [ok : {TRUE}, procs : {JProcsTwo}], {{ServerShellPid, OtherShellPid}})

SpecProc == InitProc /\ [][Next]_vars

\* Toolchains: what each of the five directories holds, JAVA_HOME set or not.
ToolWorlds ==
  { [javac |-> JavacWorld(h, p, a, b, t), home |-> e] :
      h \in JavacKinds, p \in {"absent", "java11"}, a \in {"absent", "other", "java11"},
      b \in {"absent", "java11"}, t \in {"other", "java11"}, e \in BOOLEAN }

InitTool ==
  InitWorld({"windows", "other"}, {"single"}, {NoFile, ValidFile, StaleSourceFile}, {FALSE},
            {MaxJava}, {{}}, {{}}, {{}}, ToolWorlds, {NetOk(<<ListenLine>>)},
            [ok : {TRUE}, procs : {JProcsOne}], {{ServerShellPid}})

SpecTool == InitTool /\ [][Next]_vars

\* ------------------------------------------------------------ claims
Range(q) == {q[i] : i \in 1..Len(q)}
Count(q, x) == Cardinality({i \in 1..Len(q) : q[i] = x})
PhaseSet == Range(Phases)
Returned(phase) == result[phase] # "none"

\* C1: the phase handlers are called in the order Setup, Build, Deploy,
\* Restart, Cleanup, each at most once and one at a time; a phase is called
\* only when every earlier one returned success; the first failure moves
\* the run to Aborted with no later phase called; Done is reached only
\* when all five returned success.
C1_PhaseOrder ==
  /\ Len(started) <= Len(Phases)
  /\ \A i \in 1..Len(started) : started[i] = Phases[i]
  /\ \A i \in 1..Len(started) : \A k \in 1..(i - 1) : result[Phases[k]] = "ok"
  /\ \A i \in 1..Len(Phases) : Returned(Phases[i]) => i <= Len(started)
  /\ \A i \in 1..Len(Phases) :
       result[Phases[i]] = "fail" => pc = "Aborted" /\ Len(started) = i
  /\ pc = "Aborted" => \E ph \in PhaseSet : result[ph] = "fail"
  /\ pc \in {"Done", "Exited"} => \A ph \in PhaseSet : result[ph] = "ok"

C1_Witness == pc = "Done" /\ started = Phases

\* C2: whenever setupDirectories returns success, config.SourceDir passes
\* validateSourceDir and config.TargetDir passes validateTargetDir.
C2_SetupValidates ==
  [][ (result["Setup"] = "none" /\ result'["Setup"] = "ok")
        => (validateSourceDir(config.SourceDir) /\ validateTargetDir(config.TargetDir))' ]_vars

\* the target extension directory is a direct child of <target>/SFS2X/extensions
DirectChild(cfg) ==
  LET base == ExtensionsDir(RootComp(cfg.TargetDir))
      d == TargetExtDir(cfg)
  IN  Len(d) = Len(base) + 1 /\ SubSeq(d, 1, Len(base)) = base

\* C3: after setup returned success, config.ExtensionFolder is non-empty
\* and holds none of ':', '\' and '/', and the target extension directory
\* is a direct child of the installation's extensions directory.
C3_ExtensionNameSafe ==
  result["Setup"] = "ok" =>
    ValidExtensionName(config.ExtensionFolder) /\ DirectChild(config)

\* deployProject has just returned true
DeployReturnedOk == pc = "Restart"

\* C4 as claimed: whenever the deploy phase returns success the only
\* archive in the target extension directory is the newly built
\* ServerExtension.jar, whatever the removals did.
C4_OnlyNewArchive == DeployReturnedOk => ExtJars = {Jar(BuiltJar, "built")}

\* C4 (amended): whenever the deploy phase returns success the archives in
\* the target extension directory are ServerExtension.jar and exactly the
\* earlier archives whose removal failed; when every removal succeeded the
\* only archive is the newly built ServerExtension.jar.
C4_ArchivesAfterDeploy ==
  DeployReturnedOk =>
    /\ rmFailed \subseteq preDeployJars
    /\ Names(ExtJars) = {BuiltJar} \cup rmFailed
    /\ rmFailed = {} => ExtJars = {Jar(BuiltJar, "built")}

C4_Witness ==
  /\ DeployReturnedOk
  /\ "old.jar" \in preDeployJars
  /\ rmFailed = {}
  /\ ExtJars = {Jar(BuiltJar, "built")}

Fails(phase) == result[phase] # "fail" /\ result'[phase] = "fail"

\* C5: the deploy phase returns failure only where os.MkdirAll or copyFile
\* fails; window discovery, the connection listing and taskkill, whatever
\* they do, are each followed by the next step: the delay, the removal of
\* old archives, the copy.
C5_DeployFailure ==
  [][ /\ Fails("Deploy") => pc \in {"Deploy", "DeployCopy"} /\ pc' = "Aborted"
      /\ pc = "DeployFind" => pc' = "DeployKill"
      /\ pc = "DeployKill" => pc' = "DeploySleep"
      /\ pc = "DeploySleep" => pc' = "DeployRemove"
      /\ pc = "DeployRemove" => pc' = "DeployCopy" ]_vars

\* the listing fails, nothing is discovered, and the deploy phase succeeds
C5_Witness ==
  /\ result["Deploy"] = "ok"
  /\ platform = "windows"
  /\ ~netstat.ok
  /\ ~javaProcs.ok

\* C6: the restart phase returns failure only where os.WriteFile or
\* cmd.Start fails, and the run is then Aborted with Cleanup never called;
\* the block on the stored window identifier always goes on to the write.
C6_RestartFailure ==
  [][ /\ Fails("Restart") =>
           /\ pc \in {"RestartWrite", "RestartSpawn"}
           /\ pc' = "Aborted"
           /\ "Cleanup" \notin Range(started')
      /\ pc = "Restart" => pc' = "RestartWrite" ]_vars

\* the terminal could not be started: Aborted, Cleanup not called
C6_Witness ==
  /\ result["Restart"] = "fail"
  /\ pc = "Aborted"
  /\ script = "present"
  /\ started = SubSeq(Phases, 1, 4)

\* C7: when Deploy or Restart returns failure, the archive and the compiled
\* output of the successful Build are still in the source tree at Aborted,
\* and when Restart returns failure the archive copied by Deploy is still
\* in the target extension directory.
C7_NoRollback ==
  (pc = "Aborted" /\ result["Build"] = "ok") =>
    /\ Jar(BuiltJar, "built") \in srcRootJars
    /\ "Main.class" \in tree.class
    /\ result["Restart"] = "fail" => BuiltJar \in Names(ExtJars)

\* identifiers the listing shows bound to port 9933 in listening state
BoundPids ==
  {l.pid : l \in {x \in Range(netstat.lines) :
                    x.port = ServerPort /\ x.state = "LISTENING" /\ x.pid # NoPid}}

\* C8: for every listing, killPort9933 runs taskkill exactly once for each
\* identifier the listing shows bound to port 9933 in listening state and
\* never for any other identifier.
C8_KillOncePerBoundPid ==
  (pc = "DeploySleep" /\ platform = "windows" /\ netstat.ok) =>
    \A id \in Pids \cup Range(killCalls) :
      Count(killCalls, id) = IF id \in BoundPids THEN 1 ELSE 0

\* C9: when <project>/src holds no .java file, the build phase returns
\* failure and neither javac nor jar is run.
C9_NoSourcesNoCompiler ==
  (tree.java = 0 /\ "Build" \in Range(started)) =>
    /\ javacCalls = 0
    /\ jarCalls = 0
    /\ pc # "BuildEnumerate" => result["Build"] = "fail" /\ pc = "Aborted"

C9_Witness ==
  /\ tree.java = 0
  /\ result["Build"] = "fail"
  /\ javacCalls = 0
  /\ jarCalls = 0

\* C10: every non-empty directory findJava11Path returned holds a javac
\* whose -version run succeeded with the version token in its output.
C10_ReturnedIsJava11 ==
  (Returned("Setup") /\ config.JavaPath # "") => isJava11(config.JavaPath)

\* the candidates the three automatic strategies name on this platform, in
\* the order of the strategies: JAVA_HOME/bin when the variable is set, the
\* directory of the search path, the glob matches in pattern order (the
\* pattern list is for Windows; elsewhere there is none)
AutoCandidates ==
  (IF javaHomeSet THEN <<"homeBin">> ELSE <<>>)
    \o <<"pathDir">>
    \o (IF platform = "windows" THEN <<"g1", "g2">> ELSE <<>>)

AutoAccepted ==
  SelectSeq(AutoCandidates, LAMBDA d : JavacExists(javac[d]) /\ isJava11(d))

\* C11: findJava11Path returns the directory of the first accepted candidate
\* in the order JAVA_HOME, search path, glob patterns, prompt; the prompt is
\* reached only when no earlier candidate was accepted, the empty path is
\* returned only when the prompt too gave nothing; with JAVA_HOME unset,
\* no javac on the search path and one accepted glob match, that match's
\* directory is returned without a prompt.
C11_FirstAcceptedInOrder ==
  Returned("Setup") =>
    /\ AutoAccepted # <<>> => config.JavaPath = Head(AutoAccepted) /\ ~javaPrompted
    /\ AutoAccepted = <<>> =>
         /\ javaPrompted
         /\ config.JavaPath # "" => JavacExists(javac[config.JavaPath])
    /\ config.JavaPath = "" => AutoAccepted = <<>> /\ javaPrompted

\* JAVA_HOME unset, the search path without javac, one glob match accepted
C11_Witness ==
  /\ Returned("Setup")
  /\ ~javaHomeSet
  /\ javac["pathDir"] = "absent"
  /\ GlobMatches = <<"g1">>
  /\ isJava11("g1")
  /\ config.JavaPath = "g1"
  /\ ~javaPrompted

\* ------------------------------------------- cleanupProject by itself
\* calls of cleanupProject in a row
MaxCleanups == 2

\* cleanupProject is called on the project tree as the previous call left it
CallCleanup ==
  /\ Len(cleanupLog) < MaxCleanups
  /\ \E failing \in SUBSET FileNames :
       LET r == cleanupFiles(tree, srcRootJars, failing) IN
         /\ tree' = r.tree
         /\ srcRootJars' = r.jars
         /\ cleanupLog' = Append(cleanupLog, r.report)
  /\ UNCHANGED <<world, cfgFile, extDirJars, script, procs, config, pc, started, result,
                 javacCalls, jarCalls, preDeployJars, rmFailed, javaPrompted, buildLog,
                 utilCalls, classpath>>

NextCleanup == CallCleanup

\* every content of <project>/src and of the project root
InitCleanup ==
  InitWorld({"windows"}, {"single"}, {NoFile}, {FALSE}, {MaxJava},
            SUBSET {"Old.class", "Main.class"}, SUBSET {OldJar, Jar(BuiltJar, "built")},
            {{}}, {ToolNone}, {NetFailed}, [ok : {TRUE}, procs : {JProcsOne}],
            {{ServerShellPid}})

SpecCleanup == InitCleanup /\ [][NextCleanup]_vars

\* the .class files and archives cleanupProject would meet now
ProjectFiles == tree.class \cup Names(srcRootJars)

\* C12: a call of cleanupProject that follows a call in which every removal
\* succeeded, or that meets no .class file and no archive, removes nothing,
\* warns of nothing, leaves the files as they were and returns true.
C12_CleanupIdempotent ==
  \A i \in 1..Len(cleanupLog) :
    LET r == cleanupLog[i] IN
      ((i > 1 /\ cleanupLog[i - 1].failed = {}) \/ r.before = {}) =>
        /\ r.classFilesRemoved = 0
        /\ r.jarFilesRemoved = 0
        /\ r.warned = {}
        /\ r.failed = {}
        /\ r.returned
        /\ i = Len(cleanupLog) => ProjectFiles = r.before

\* a first call that removed files without a failure, then a second call
C12_Witness ==
  /\ Len(cleanupLog) = 2
  /\ cleanupLog[1].classFilesRemoved > 0
  /\ cleanupLog[1].jarFilesRemoved > 0
  /\ cleanupLog[1].failed = {}
  /\ cleanupLog[2].before = {}
  /\ ProjectFiles = {}

\* C13: cleanupProject returns true whatever its removals did, so a run
\* that called Cleanup is Done and never Aborted; every file met is handed
\* to os.Remove, a failure leaving only that file behind.
C13_CleanupAlwaysSucceeds ==
  /\ result["Cleanup"] # "fail"
  /\ "Cleanup" \in Range(started) =>
       /\ pc \in {"Done", "Exited"}
       /\ result["Cleanup"] = "ok"
       /\ Len(cleanupLog) = 1
       /\ LET r == cleanupLog[1] IN
            /\ r.returned
            /\ r.classFilesRemoved + r.jarFilesRemoved + Cardinality(r.failed)
                 = Cardinality(r.before)
            /\ r.failed \subseteq r.before
            /\ ProjectFiles = r.failed

\* one removal failed, the other files were removed all the same, Done
C13_Witness ==
  /\ pc = "Done"
  /\ Len(cleanupLog) = 1
  /\ cleanupLog[1].failed = {BuiltJar}
  /\ cleanupLog[1].classFilesRemoved > 0
  /\ ProjectFiles = {BuiltJar}

\* C14: once setupDirectories has returned, no step of Build, Deploy,
\* Restart or Cleanup (nor anything else) changes a field of the Config
\* record.
C14_ConfigWrittenOnlyBySetup ==
  [][ Returned("Setup") => config' = config ]_vars

\* all four later phases ran on the record setup left
C14_Witness ==
  /\ pc = "Done"
  /\ started = Phases
  /\ config.SourceDir = "proj"
  /\ config.JavaPath # ""

\* C15: sfdeploy_config.json changes only in the step in which the
\* interactive path of setupDirectories ends with success; reusing a saved
\* configuration, failing for want of a toolchain, and every later phase
\* leave it as it was.
C15_FileWrittenOnlyByInteractiveSetup ==
  [][ cfgFile' # cfgFile =>
        /\ pc = "FindJava"
        /\ result["Setup"] = "none"
        /\ result'["Setup"] = "ok" ]_vars

\* the file holds what this run collected, toolchain directory included
C15_Witness ==
  /\ result["Setup"] = "ok"
  /\ config.JavaPath # ""
  /\ cfgFile = OkFile(config)

\* a name with at least one character and none of ':', '\', '/'
NameIsSimple(s) == s # <<>> /\ \A i \in 1..Len(s) : s[i] \notin {Colon, Backslash, Slash}

\* C16: in the extension-name loop a value that is empty or holds ':', '\'
\* or '/' is followed by the prompt again; the loop is left only with a
\* simple name, and the file written at the end of that setup holds a
\* simple name.
C16_BadNameRejected ==
  [][ /\ (pc = "PromptExtension" /\ ~NameIsSimple(config'.ExtensionFolder))
           => pc' = "PromptExtension"
      /\ (pc = "PromptExtension" /\ pc' # "PromptExtension")
           => pc' = "FindJava" /\ NameIsSimple(config'.ExtensionFolder)
      /\ (cfgFile' # cfgFile /\ cfgFile'.kind = "ok")
           => NameIsSimple(cfgFile'.cfg.ExtensionFolder) ]_vars

\* a name with a backslash was entered and the prompt is up again
C16_Witness ==
  /\ pc = "PromptExtension"
  /\ config.ExtensionFolder = <<"a", Backslash, "a">>

\* ------------------------------------------- buildClasspath by itself
\* buildClasspath is called with the library directory as it is
CallBuildClasspath ==
  /\ classpath = NoClasspath
  /\ classpath' = buildClasspath(libDir)
  /\ UNCHANGED <<world, files, procs, config, pc, started, result, javacCalls, jarCalls,
                 preDeployJars, rmFailed, javaPrompted, cleanupLog, buildLog, utilCalls>>

NextClasspath == CallBuildClasspath

\* every content of the library directory a file system can hold: one that
\* ignores case holds no two names that differ in case only
LibDirs ==
  {d \in SUBSET Range(LibOrder) :
     foldCase => \A f, g \in d : LowerName(f) = LowerName(g) => f = g}

InitClasspath ==
  /\ InitBase({"windows", "other"}, {"single"}, {NoFile}, {FALSE}, {MaxJava}, {{}}, {{}},
              {{}}, {ToolNone}, {NetFailed}, [ok : {TRUE}, procs : {JProcsOne}],
              {{ServerShellPid}})
  /\ foldCase \in (IF platform = "windows" THEN {TRUE} ELSE BOOLEAN)
  /\ libDir \in LibDirs

SpecClasspath == InitClasspath /\ [][NextClasspath]_vars

\* the files of the directory the pattern *.jar matches
ArchivesOf(dir) == {f \in dir : f.ext = "jar"}
\* place of a name in the enumeration order
Place(f) == CHOOSE i \in 1..Len(LibOrder) : LibOrder[i] = f
\* the entries are exactly the archives of dir, each once, in enumeration order
ListsArchives(cp, dir) ==
  /\ Range(cp.parts) = ArchivesOf(dir)
  /\ Len(cp.parts) = Cardinality(ArchivesOf(dir))
  /\ \A i, j \in 1..Len(cp.parts) : i < j => Place(cp.parts[i]) < Place(cp.parts[j])
  /\ cp.sep = IF platform = "windows" THEN ";" ELSE ":"

\* C17 as claimed: with at least one *.jar in the directory the classpath
\* lists exactly its archives, each once, in enumeration order, joined by
\* the platform separator; with none it is the single entry "."; the
\* fallback patterns never add an entry.
C17_ClasspathAllOrDot ==
  classpath # NoClasspath =>
    IF ArchivesOf(libDir) # {} THEN ListsArchives(classpath, libDir)
    ELSE classpath.parts = <<CurrentDir>>

\* the literal names of requiredJars the file system resolves, in list order
ResolvedRequired(dir) ==
  SelectSeq(<<LibFile("sfs2x", "", "jar"), LibFile("sfs2x-core", "", "jar"),
              LibFile("sfs2x-api", "", "jar")>>,
            LAMBDA f : \E g \in dir : g = f \/ (foldCase /\ LowerName(g) = LowerName(f)))

\* C17 (amended): with at least one *.jar the classpath lists exactly the
\* archives, each once, in enumeration order, joined by the platform
\* separator; with none it holds the literal required names (sfs2x.jar,
\* sfs2x-core.jar, sfs2x-api.jar) that the file system resolves, which can
\* only be files whose name differs in case on a file system that ignores
\* case; when there is no such file either it is the single entry ".".
C17_ClasspathAllOrRequiredOrDot ==
  classpath # NoClasspath =>
    IF ArchivesOf(libDir) # {} THEN ListsArchives(classpath, libDir)
    ELSE IF ResolvedRequired(libDir) # <<>>
         THEN /\ classpath.parts = ResolvedRequired(libDir)
              /\ classpath.sep = (IF platform = "windows" THEN ";" ELSE ":")
              /\ foldCase
    ELSE classpath.parts = <<CurrentDir>>

\* a.jar and b.jar (and a text file) in the directory: the two, in order
C17_Witness ==
  /\ libDir = {LibFile("a", "", "jar"), LibFile("b", "", "jar"), LibFile("notes", "", "txt")}
  /\ classpath.parts = <<LibFile("a", "", "jar"), LibFile("b", "", "jar")>>
  /\ classpath.sep = ";"

\* the paths a source directory may be given as, the empty one included
SourcePaths == SourceInputs \cup {""}
\* the path exists, holds a src subdirectory, and a .java file is under it
SourceTreeComplete(d) ==
  /\ d \in {"proj", "nosrc"}
  /\ d = "proj"
  /\ tree.java > 0

\* C18: validateSourceDir(path) is true exactly when path exists, holds a
\* src subdirectory and a .java file lies under it; the source loop of
\* setup goes on exactly with such a path and asks again otherwise.
C18_ValidateSourceIff ==
  [][ /\ \A d \in SourcePaths : validateSourceDir(d) <=> SourceTreeComplete(d)
      /\ pc = "PromptSource" =>
           ((pc' = "DetectTarget") <=> SourceTreeComplete(config'.SourceDir))
      /\ pc = "PromptSource" =>
           ((pc' = "PromptSource") <=> ~SourceTreeComplete(config'.SourceDir)) ]_vars

\* a project whose src holds no .java file was entered and refused
C18_Witness ==
  /\ pc = "PromptSource"
  /\ config.SourceDir = "proj"
  /\ tree.java = 0

\* the places of deployProject, in the order of its statements
DeployPcs ==
  <<"Deploy", "DeployFind", "DeployKill", "DeploySleep", "DeployRemove", "DeployCopy">>
DeployRank(p) == CHOOSE i \in 1..Len(DeployPcs) : DeployPcs[i] = p
InDeploy == pc \in Range(DeployPcs)

\* C19: inside deployProject every step is followed by the next in the
\* order mkdir, discovery, terminate, delay, removal, copy (or, at mkdir and
\* copy only, by the return), so each happens at most once; the window
\* identifier is set only in the discovery step, taskkill runs and
\* processes end only in the terminate step, and the archives of the
\* target extension directory change only in the removal and copy steps.
C19_DeployStepOrder ==
  [][ InDeploy =>
        /\ \/ pc' \in Range(DeployPcs) /\ DeployRank(pc') = DeployRank(pc) + 1
           \/ pc' = "Aborted" /\ pc \in {"Deploy", "DeployCopy"}
           \/ pc' = "Restart" /\ pc = "DeployCopy"
        /\ smartFoxCmdPid' # smartFoxCmdPid => pc = "DeployFind"
        /\ (killCalls' # killCalls \/ alive' # alive) => pc = "DeployKill"
        /\ ExtJars' # ExtJars => pc \in {"DeployRemove", "DeployCopy"} ]_vars

\* window found, listener terminated, old archive removed, copy about to start
C19_Witness ==
  /\ pc = "DeployCopy"
  /\ smartFoxCmdPid = ServerShellPid
  /\ killCalls = <<ServerPid>>
  /\ ServerPid \notin alive
  /\ "old.jar" \in preDeployJars
  /\ ExtJars = {}

\* restartServer returns true exactly in the step that starts the one new
\* terminal, after the block on the stored window identifier has cleared it
OneNewTerminal ==
  /\ (terminal = "none" /\ terminal' # "none") =>
       /\ pc = "RestartSpawn"
       /\ terminal' = "spawned"
       /\ result'["Restart"] = "ok"
       /\ smartFoxCmdPid = NoPid
  /\ terminal' = "spawned" => terminal \in {"none", "spawned"}
  /\ (result["Restart"] # "ok" /\ result'["Restart"] = "ok") =>
       terminal = "none" /\ terminal' = "spawned"
  /\ pc = "Restart" => smartFoxCmdPid' = NoPid

InitLive ==
  InitWorld({"windows", "other"}, {"split", "single"}, {NoFile, ValidFile, StaleSourceFile},
            {FALSE}, 0..MaxJava, {{}}, {{}}, {{}}, {ToolHome, ToolNone},
            {NetOk(<<ListenLine>>)}, [ok : {TRUE}, procs : {JProcsOne}], {{ServerShellPid}})

Scheduling ==
  /\ WF_vars(DelayElapsed)
  /\ WF_vars(DelayedRemove)
  /\ WF_vars(TerminalRead)
  /\ WF_vars(buildProject \/ deployProject \/ restartServer \/ cleanupProject)

SpecLive == InitLive /\ [][Next]_vars /\ Scheduling

\* C21: after every restart phase that returned success the wrapper script
\* is eventually deleted by the delayed task, whatever the pipeline does
\* next (its process exiting included), and the script is never deleted
\* before the task's delay has elapsed.
C21_ScriptEventuallyDeleted ==
  /\ (result["Restart"] = "ok") ~> (rmTask = "done" /\ script = "absent")
  /\ [][ (script = "present" /\ script' = "absent") => rmTask = "woke" ]_vars

\* ------------------------------------------------------------- C22
\* the three concurrent units took a step
PipelineStep == pc' # pc
TaskStep == rmTask' # rmTask /\ rmTask # "none"
TerminalStep == terminal' # terminal /\ terminal # "none"

\* C22: the deletion of the wrapper script is ordered only after the spawn
\* and the delay; it does not wait for the terminal's read, nor the read for
\* it, and the script is the only thing the three units share: a step of
\* the task touches the script and the task alone, a step of the terminal
\* the terminal alone, and a later step of the pipeline none of the three.
C22_DeletionUnsynchronised ==
  /\ [](rmTask # "none" => terminal # "none")
  /\ []((rmTask = "woke" /\ MainRunning) => ENABLED DelayedRemove)
  /\ [](terminal = "spawned" => ENABLED TerminalRead)
  /\ [](terminal = "failed" => rmTask = "done")
  /\ [][ /\ TaskStep => UNCHANGED <<world, cfgFile, tree, srcRootJars, extDirJars,
                                     alive, smartFoxCmdPid, killCalls, terminal, ctl>>
         /\ TerminalStep => UNCHANGED <<world, files, alive, smartFoxCmdPid, killCalls,
                                         rmTask, ctl>>
         /\ (PipelineStep /\ rmTask # "none") => UNCHANGED <<script, rmTask, terminal>>
         /\ (script = "present" /\ script' = "absent") => (rmTask = "woke" /\ rmTask' = "done")
       ]_vars

\* the script was deleted before the spawned terminal read it
C22_Witness == terminal = "failed" /\ rmTask = "done" /\ script = "absent"

\* ------------------------------------------------------------- C23
BuildOrder == <<"clean", "enumerate", "javac", "jar">>
StepNames == [i \in 1..Len(buildLog) |-> buildLog[i].step]
StepsNamed(s) == {i \in 1..Len(buildLog) : buildLog[i].step = s}

\* C23: the steps of the build phase are, in this order, the deletion of
\* the compiled output, the enumeration of the sources, the compiler and
\* the packaging tool; the compiler runs only when a source file was
\* found, the packaging tool only after the compiler exited with zero; the
\* phase returns success exactly when a source file was found and both
\* tools exited with zero; every build, failed ones too, begins with the
\* deletion.
C23_BuildStepOrder ==
  /\ Len(buildLog) <= 4
  /\ StepNames = SubSeq(BuildOrder, 1, Len(buildLog))
  /\ Cardinality(StepsNamed("javac")) = javacCalls
  /\ Cardinality(StepsNamed("jar")) = jarCalls
  /\ Len(buildLog) >= 3 => buildLog[2].n > 0
  /\ Len(buildLog) = 4 => buildLog[3].n = 0
  /\ (\E i \in 1..Len(started) : started[i] = "Build") => Len(buildLog) >= 1
  /\ result["Build"] # "none" => Len(buildLog) >= 2
  /\ result["Build"] = "ok" <=>
       (Len(buildLog) = 4 /\ buildLog[2].n > 0 /\ buildLog[3].n = 0 /\ buildLog[4].n = 0)
  /\ result["Build"] = "fail" <=>
       \/ Len(buildLog) = 2 /\ buildLog[2].n = 0
       \/ Len(buildLog) = 3 /\ buildLog[3].n # 0
       \/ Len(buildLog) = 4 /\ buildLog[4].n # 0

\* a build that went through its four steps and returned success, the old
\* compiled output gone
C23_Witness ==
  /\ result["Build"] = "ok"
  /\ Len(buildLog) = 4
  /\ "Old.class" \notin tree.class
  /\ pc = "Deploy"

\* ------------------------------------------------------------- C24
NonWindows == platform # "windows"

ChildrenOf(w) == {j \in Range(javaProcs.procs) : j.ppid = w}

\* C25: the stored window identifier is empty before the deploy phase; it
\* is set only by the discovery step of Deploy, and only to the parent of a
\* process listening on port 9933 when that parent is a cmd.exe; it is
\* cleared only by Restart and is empty in every state after the restart
\* phase returned, whatever it returned.
C25_WindowIdentifier ==
  /\ []((\A i \in 1..Len(started) : started[i] # "Deploy") => smartFoxCmdPid = NoPid)
  /\ [](smartFoxCmdPid # NoPid =>
          /\ smartFoxCmdPid \in shellPids
          /\ \E j \in ChildrenOf(smartFoxCmdPid) : j.pid \in BoundPids)
  /\ [](result["Restart"] # "none" => smartFoxCmdPid = NoPid)
  /\ [][ smartFoxCmdPid' # smartFoxCmdPid =>
           IF smartFoxCmdPid' # NoPid THEN pc = "DeployFind" ELSE pc = "Restart" ]_vars

\* ------------------------------------------------------------- C26
\* the deploy phase ended the server and then returned false (after the
\* termination step the only return of deployProject is the copy's)
DeployFailedAfterKill ==
  /\ result["Deploy"] = "fail"
  /\ ServerPid \in Range(killCalls)
  /\ ServerPid \notin alive

\* the archives that were in the target extension directory before the
\* deploy phase and are still there (a half-written copy is a new file)
StaleLeft == {j.name : j \in {x \in ExtJars : x.name \in preDeployJars /\ x.content # "partial"}}

NoRelaunch ==
  /\ pc = "Aborted"
  /\ terminal = "none" /\ script = "absent" /\ rmTask = "none"
  /\ \A i \in 1..Len(started) : started[i] # "Restart"

\* C26 as stated: when the deploy phase ended the server and then failed
\* at the copy, the run is Aborted, the server is down, nothing is
\* relaunched and every stale archive is gone from the target extension
\* directory; a terminal is spawned only after a successful deploy phase.
C26_CopyFailureAllStaleRemoved ==
  /\ DeployFailedAfterKill => (NoRelaunch /\ StaleLeft = {})
  /\ terminal # "none" => result["Deploy"] = "ok"

\* C26 as the code has it: the stale archives are gone but for those whose
\* removal failed.
C26_CopyFailureStaleRemovedUnlessRefused ==
  /\ DeployFailedAfterKill => (NoRelaunch /\ StaleLeft \subseteq rmFailed)
  /\ terminal # "none" => result["Deploy"] = "ok"

\* the server ended, a stale archive removed, the copy failed
C26_Witness ==
  /\ DeployFailedAfterKill
  /\ pc = "Aborted"
  /\ preDeployJars # {}
  /\ StaleLeft = {}

\* ------------------------------------------------------------- C27
\* C27: the deletion task exists only once the terminal was started and
\* the restart phase returned success; a restart phase that fails at the
\* start of the terminal leaves the written script on disk, creates no
\* task, and the script is never deleted afterwards; one that fails at the
\* writing of the script spawns no terminal and creates no task.
C27_TaskOnlyAfterSpawn ==
  /\ [](rmTask # "none" => (terminal # "none" /\ result["Restart"] = "ok"))
  /\ [](result["Restart"] = "fail" =>
          (pc = "Aborted" /\ rmTask = "none" /\ terminal = "none"))
  /\ [][ /\ (pc = "RestartSpawn" /\ result'["Restart"] = "fail") =>
              (script = "present" /\ script' = "present")
         /\ (pc = "RestartWrite" /\ result'["Restart"] = "fail") =>
              (script' = script /\ terminal' = "none" /\ rmTask' = "none")
         /\ result["Restart"] = "fail" => script' = script
       ]_vars

\* the restart phase failed at the start of the terminal: the script is there
C27_Witness ==
  /\ result["Restart"] = "fail"
  /\ pc = "Aborted"
  /\ script = "present"
  /\ rmTask = "none"
  /\ terminal = "none"

====
